---- MODULE Spec2Model ----
(***************************************************************************)
(* State-machine model of server.js: the contact-form / portfolio / admin  *)
(* backend.  The three mongoose collections are the shared state; every    *)
(* route handler is a sequence of atomic steps, one per awaited operation  *)
(* (the synchronous code before the first await runs in the step that      *)
(* completes that await, the code after the last one in the step that      *)
(* sends the response).  Requests of different clients interleave at the   *)
(* awaits.                                                                 *)
(*                                                                         *)
(* The document store is modelled with the semantics the schemas declare   *)
(* (required, unique, default); an outage of the store, and with it the    *)
(* 500 of the handlers' outer catch blocks, is not modelled.  The mail     *)
(* transport may fail on every send.  Request bodies carry strings or      *)
(* leave a field out; passwords are strings; path ids and token ids are    *)
(* object ids.                                                             *)
(*                                                                         *)
(* Spec is the whole server.  Its state space is the product of the three  *)
(* route groups, so the properties are checked under SpecSubmit, SpecAdmin *)
(* and SpecGuard, each the routes that work on one collection.             *)
(***************************************************************************)
EXTENDS Naturals, Sequences, FiniteSets, Bags

\* ---------------------------------------------------------------- bounds
\* requests in flight at once: submissions, registrations, logins, admin-gated
\* requests
MaxSubmitting == 2
MaxRegistering == 2
MaxLoggingIn == 1
MaxGated == 1
\* object ids each collection hands out
MaxAdmins == 2
MaxContacts == 2
MaxClients == 1
\* how far the clock runs: whole token lifetimes, and milliseconds beyond them
MaxWeeks == 1
MaxMillis == 1

\* jwt.sign(..., { expiresIn: '7d' }): seven days, in the seconds of the token.
TokenTTL == 604800

\* The clock is Date.now(), in milliseconds since the server started.  It moves
\* on by a millisecond or by the seven days of a token.
Week == 1000 * TokenTTL

\* ---------------------------------------------------------------- values
Undefined == "undefined"
Usernames == {"", "a", "b"}
Passwords == {"p", "q"}
FieldValues == {Undefined, "", "x"}
Phones == {Undefined, "555"}
Services == {"seo"}
StatusInputs == {"contacted", "completed", "archived"}
ClientNames == {"acme"}
AdminIds == 1..MaxAdmins
ContactIds == 1..MaxContacts

NullDoc == [null |-> TRUE]
NoToken == [none |-> TRUE]
NoHeader == [absent |-> TRUE]
EmptyTok == [empty |-> TRUE]
Garbage == [malformed |-> TRUE]

\* exp of the tokens this server can have signed, in seconds
TokenExps == {w * TokenTTL : w \in 1..(MaxWeeks + 1)}
SignedTokens == [id : AdminIds, exp : TokenExps]
HeaderBodies == SignedTokens \cup {Garbage, EmptyTok}
Headers == {NoHeader} \cup [bearer : BOOLEAN, tok : HeaderBodies]

\* admins, contacts, clients: the three collections.  now: the clock.
\* next*Id: the object ids handed out so far.  inflight: the requests that
\* wait on an awaited operation.  sent: the response the last step sent
\* (NoResponse when it sent none), with what the request did.
VARIABLES admins, contacts, clients, now, nextAdminId, nextContactId,
          nextClientId, inflight, sent

vars == <<admins, contacts, clients, now, nextAdminId, nextContactId,
          nextClientId, inflight, sent>>

\* ---------------------------------------------------------------- responses
Res(status, success, message, data, token) ==
    [status |-> status, success |-> success, message |-> message,
     data |-> data, token |-> token]

\* The data key of a body: left out, a list of documents, or one document
\* (NullDoc for null).
NoData == [kind |-> "absent"]
DataList(docs) == [kind |-> "list", items |-> docs]
DataDoc(doc) == [kind |-> "doc", doc |-> doc]

NoArg == [none |-> TRUE]

\* A response on the wire: who answered, what was asked, the answer, and the
\* trace of what the request did on the way (ghost).
Done(op, arg, res, log) == [op |-> op, arg |-> arg, res |-> res, log |-> log]

Flight(op, pc, admin, arg, log) ==
    [op |-> op, pc |-> pc, admin |-> admin, arg |-> arg, log |-> log]

\* ---------------------------------------------------------------- auth middleware
\* req.header('Authorization')?.replace('Bearer ', ''): the prefix is removed
\* when it is there, a header without it is taken as the token itself.
ExtractToken(h) == IF h = NoHeader THEN NoToken ELSE h.tok

\* !token
TokenMissing(t) == t = NoToken \/ t = EmptyTok

\* jwt.verify(token, secret): a signed payload whose exp, in seconds, is still
\* ahead of floor(Date.now() / 1000).
JwtVerify(t, clock) == t \in SignedTokens /\ (clock \div 1000) < t.exp

\* Admin.findById(decoded.id)
FindAdminById(S, id) ==
    IF \E a \in S : a.id = id THEN CHOOSE a \in S : a.id = id ELSE NullDoc

\* AdminResolved without the `if (!admin) throw`: every decoded id passes.
AdminResolvedAlways(admin) == TRUE

\* the negation of `if (!admin) throw new Error()`
AdminResolved(admin) == admin # NullDoc

\* AuthCatch that puts the verifier's error text into the body.
AuthCatchLeaky(cause) ==
    Res(401, FALSE, IF cause = "expired" THEN "jwt expired" ELSE "Please authenticate",
        NoData, NoToken)

\* the catch block of auth: one response, whatever was thrown
AuthCatch(cause) == Res(401, FALSE, "Please authenticate", NoData, NoToken)

\* What the synchronous part of the guard makes of the header (ghost, written
\* to the request's log).
GuardCause(h, clock) ==
    LET t == ExtractToken(h) IN
    IF h = NoHeader \/ t = EmptyTok THEN "no_token"
    ELSE IF t = Garbage THEN "malformed"
    ELSE IF clock >= 1000 * t.exp THEN "expired"
    ELSE "verified"

\* Whether the id of a verified token has an account (ghost, written to the log).
AccountCause(S, id) ==
    IF \A a \in S : a.id # id THEN "no_account" ELSE "account"

\* ---------------------------------------------------------------- store operations
\* Contact.find().sort({ date: -1 }) / Client.find().sort({ date: -1 }):
\* newest first.  The store leaves the order of documents of one date open, so
\* this is the set of the lists it may return.
RECURSIVE SortByDateDesc(_)
SortByDateDesc(S) ==
    IF S = {} THEN {<<>>}
    ELSE UNION {{<<d>> \o rest : rest \in SortByDateDesc(S \ {d})} :
                d \in {x \in S : \A e \in S : e.date <= x.date}}

\* Contact.findByIdAndUpdate(id, { status }, { new: true }): the collection after
UpdateStatus(S, id, status) ==
    {IF c.id = id THEN [c EXCEPT !.status = status] ELSE c : c \in S}

\* ... and the document it returns (null when no document has the id)
UpdatedDoc(S, id, status) ==
    IF \E c \in S : c.id = id
    THEN [(CHOOSE c \in S : c.id = id) EXCEPT !.status = status]
    ELSE NullDoc

\* DeleteById that only finds the document (findById for findByIdAndDelete).
DeleteByIdKeeps(S, id) == S

\* Contact.findByIdAndDelete(id)
DeleteById(S, id) == {c \in S : c.id # id}

\* FindOneAdmin whose filter matches nothing.
FindOneAdminBlind(S, username) == NullDoc

\* Admin.findOne({ username })
FindOneAdmin(S, username) ==
    IF \E a \in S : a.username = username
    THEN CHOOSE a \in S : a.username = username
    ELSE NullDoc

\* AdminSaveOk without the unique index on username.
AdminSaveOkNoIndex(S, doc) == doc.username # ""

\* adminSchema: username and password required, username unique (the index
\* rejects an insert whose username is already stored).
AdminSaveOk(S, doc) ==
    /\ doc.username # ""
    /\ \A a \in S : a.username # doc.username

\* ---------------------------------------------------------------- credentials
Salts == {"s1", "s2"}

\* bcrypt.hash(password, 10)
Hash(password, salt) == [alg |-> "bcrypt", salt |-> salt, of |-> password]

\* Compare that accepts every password.
CompareAny(password, hashed) == TRUE

\* bcrypt.compare(password, admin.password)
Compare(password, hashed) == hashed.of = password

\* jwt.sign({ id: admin._id }, secret, { expiresIn: '7d' })
Sign(id, clock) == [id |-> id, exp |-> (clock \div 1000) + TokenTTL]

\* ---------------------------------------------------------------- contact form
ContactBodies ==
    [name : FieldValues, email : FieldValues, phone : Phones,
     service : Services, message : FieldValues]

Falsy(v) == v = Undefined \/ v = ""

\* ContactInvalid that forgets the message.
ContactInvalidNoMessage(b) == Falsy(b.name) \/ Falsy(b.email)

\* if (!name || !email || !message)
ContactInvalid(b) == Falsy(b.name) \/ Falsy(b.email) \/ Falsy(b.message)

\* Ghost: the three required fields are there and not empty.
RequiredPresent(b) ==
    \A f \in {"name", "email", "message"} : b[f] # Undefined /\ b[f] # ""

\* new Contact({ name, email, phone, service, message }) with the schema defaults
NewContact(b, id, clock) ==
    [id |-> id, name |-> b.name, email |-> b.email, phone |-> b.phone,
     service |-> b.service, message |-> b.message, date |-> clock,
     status |-> "new"]

\* AfterSave that answers without sending or awaiting the mail.
AfterSaveNoAwait == "respond"

\* the pc after `await contact.save()`: the mail is sent and awaited
AfterSave == "notify"

\* SubmissionResponse without the inner try/catch: a rejected sendMail reaches
\* the outer catch.
SubmissionResponseStrict(mailOk) ==
    IF mailOk
    THEN Res(201, TRUE, "Thank you! We will contact you soon.", NoData, NoToken)
    ELSE Res(500, FALSE, "Server error. Please try again.", NoData, NoToken)

\* the response after the inner try/catch around sendMail
SubmissionResponse(mailOk) ==
    Res(201, TRUE, "Thank you! We will contact you soon.", NoData, NoToken)

\* ---------------------------------------------------------------- portfolio
ClientBodies == [name : ClientNames]

\* new Client(req.body) with the schema default for date
NewClient(b, id, clock) == [id |-> id, name |-> b.name, date |-> clock]

\* ---------------------------------------------------------------- state
NoResponse == Done("none", NoArg, Res(0, FALSE, Undefined, NoData, NoToken), <<>>)

\* The server has started on an empty database.
Init ==
    /\ admins = {}
    /\ contacts = {}
    /\ clients = {}
    /\ now = 0
    /\ nextAdminId = 1
    /\ nextContactId = 1
    /\ nextClientId = 1
    /\ inflight = EmptyBag
    /\ sent = NoResponse

Requests == BagToSet(inflight)
InFlight(ops) == BagCardinality([r \in {q \in Requests : q.op \in ops} |-> inflight[r]])
Enter(r) == inflight' = inflight (+) SetToBag({r})
Leave(r) == inflight' = inflight (-) SetToBag({r})
Move(r, q) == inflight' = (inflight (-) SetToBag({r})) (+) SetToBag({q})
Quiet == sent' = NoResponse

\* Date.now() reads a millisecond later: the next inquiry or client has a later date.
Tick ==
    /\ (now + 1) % Week <= MaxMillis
    /\ now' = now + 1
    /\ Quiet
    /\ UNCHANGED <<admins, contacts, clients, nextAdminId, nextContactId,
                   nextClientId, inflight>>

\* Seven days pass: the tokens signed up to seven days ago have expired.
TickWeek ==
    /\ (now + Week) \div Week <= MaxWeeks
    /\ now' = now + Week
    /\ Quiet
    /\ UNCHANGED <<admins, contacts, clients, nextAdminId, nextContactId,
                   nextClientId, inflight>>

\* ---------------------------------------------------------------- POST /api/contact
\* The request arrives: the validation and its 400, or new Contact(...), which
\* stamps the date, and contact.save() is started.
Submit ==
    \E b \in ContactBodies :
        IF ContactInvalid(b)
        THEN /\ sent' = Done("contact", NoArg,
                             Res(400, FALSE, "Name, email and message are required",
                                 NoData, NoToken),
                             <<IF RequiredPresent(b) THEN "complete" ELSE "incomplete",
                               "respond">>)
             /\ UNCHANGED <<admins, contacts, clients, now, nextAdminId,
                            nextContactId, nextClientId, inflight>>
        ELSE /\ InFlight({"contact"}) < MaxSubmitting
             /\ nextContactId <= MaxContacts
             /\ Enter(Flight("contact", "save", NullDoc,
                             NewContact(b, nextContactId, now),
                             <<IF RequiredPresent(b) THEN "complete" ELSE "incomplete">>))
             /\ nextContactId' = nextContactId + 1
             /\ Quiet
             /\ UNCHANGED <<admins, contacts, clients, now, nextAdminId, nextClientId>>

\* contact.save() settles: the inquiry is stored, and sendMail is started.
Save ==
    \E r \in Requests :
        /\ r.op = "contact" /\ r.pc = "save"
        /\ contacts' = contacts \cup {r.arg}
        /\ Move(r, [r EXCEPT !.pc = AfterSave, !.log = Append(@, "persist")])
        /\ Quiet
        /\ UNCHANGED <<admins, clients, now, nextAdminId, nextContactId, nextClientId>>

\* transporter.sendMail settles: resolved, or rejected and caught by the inner catch.
Notify ==
    \E r \in Requests : \E ok \in BOOLEAN :
        /\ r.op = "contact" /\ r.pc = "notify"
        /\ Move(r, [r EXCEPT !.pc = "respond",
                             !.log = Append(@, IF ok THEN "notify_ok" ELSE "notify_fail")])
        /\ Quiet
        /\ UNCHANGED <<admins, contacts, clients, now, nextAdminId, nextContactId,
                       nextClientId>>

\* res.status(201).json(...)
Respond ==
    \E r \in Requests :
        /\ r.op = "contact" /\ r.pc = "respond"
        /\ Leave(r)
        /\ sent' = Done("contact", r.arg,
                        SubmissionResponse(\A i \in DOMAIN r.log : r.log[i] # "notify_fail"),
                        Append(r.log, "respond"))
        /\ UNCHANGED <<admins, contacts, clients, now, nextAdminId, nextContactId,
                       nextClientId>>

\* ---------------------------------------------------------------- admin-gated routes
GatedOps == {"listContacts", "updateContact", "deleteContact", "createClient"}

GatedArgs(op) ==
    CASE op = "listContacts" -> {NoArg}
      [] op = "updateContact" -> [id : ContactIds, status : StatusInputs]
      [] op = "deleteContact" -> [id : ContactIds]
      [] op = "createClient" -> ClientBodies

\* auth, up to its await: the token is extracted and verified against the clock
\* of this moment; Admin.findById is started.  The 401 of a refused request is
\* the same for every route and argument.
Auth ==
    \E h \in Headers :
        LET t == ExtractToken(h) IN
        IF TokenMissing(t) \/ ~JwtVerify(t, now)
        THEN /\ sent' = Done("auth", NoArg, AuthCatch(GuardCause(h, now)),
                             <<GuardCause(h, now)>>)
             /\ UNCHANGED <<admins, contacts, clients, now, nextAdminId,
                            nextContactId, nextClientId, inflight>>
        ELSE /\ InFlight(GatedOps \cup {"auth"}) < MaxGated
             /\ Enter(Flight("auth", "find", NullDoc, [id |-> t.id],
                             <<GuardCause(h, now)>>))
             /\ Quiet
             /\ UNCHANGED <<admins, contacts, clients, now, nextAdminId,
                            nextContactId, nextClientId>>

\* Admin.findById(decoded.id) settles: 401 when there is no such account, else
\* next() runs the handler of the route up to its await (createClient builds
\* its document, which stamps the date).
AuthFind ==
    \E r \in Requests :
        /\ r.op = "auth" /\ r.pc = "find"
        /\ LET admin == FindAdminById(admins, r.arg.id)
               log == Append(r.log, AccountCause(admins, r.arg.id))
           IN
           IF ~AdminResolved(admin)
           THEN /\ Leave(r)
                /\ sent' = Done("auth", NoArg, AuthCatch(AccountCause(admins, r.arg.id)),
                                log)
                /\ UNCHANGED nextClientId
           ELSE /\ \E op \in GatedOps : \E a \in GatedArgs(op) :
                       IF op = "createClient"
                       THEN /\ nextClientId <= MaxClients
                            /\ nextClientId' = nextClientId + 1
                            /\ Move(r, Flight(op, "exec", admin,
                                              NewClient(a, nextClientId, now), log))
                       ELSE /\ nextClientId' = nextClientId
                            /\ Move(r, Flight(op, "exec", admin, a, log))
                /\ Quiet
        /\ UNCHANGED <<admins, contacts, clients, now, nextAdminId, nextContactId>>

\* GET /api/contacts
ListContacts ==
    \E r \in Requests : \E found \in SortByDateDesc(contacts) :
        /\ r.op = "listContacts" /\ r.pc = "exec"
        /\ Leave(r)
        /\ sent' = Done(r.op, r.arg,
                        Res(200, TRUE, Undefined, DataList(found), NoToken),
                        Append(r.log, "read"))
        /\ UNCHANGED <<admins, contacts, clients, now, nextAdminId, nextContactId,
                       nextClientId>>

\* PUT /api/contact/:id
UpdateContact ==
    \E r \in Requests :
        /\ r.op = "updateContact" /\ r.pc = "exec"
        /\ Leave(r)
        /\ contacts' = UpdateStatus(contacts, r.arg.id, r.arg.status)
        /\ sent' = Done(r.op, r.arg,
                        Res(200, TRUE, Undefined,
                            DataDoc(UpdatedDoc(contacts, r.arg.id, r.arg.status)), NoToken),
                        Append(r.log, "write"))
        /\ UNCHANGED <<admins, clients, now, nextAdminId, nextContactId, nextClientId>>

\* DELETE /api/contact/:id
DeleteContact ==
    \E r \in Requests :
        /\ r.op = "deleteContact" /\ r.pc = "exec"
        /\ Leave(r)
        /\ contacts' = DeleteById(contacts, r.arg.id)
        /\ sent' = Done(r.op, r.arg, Res(200, TRUE, "Contact deleted", NoData, NoToken),
                        r.log \o <<"write",
                                    IF \E c \in contacts : c.id = r.arg.id
                                    THEN "hit" ELSE "miss">>)
        /\ UNCHANGED <<admins, clients, now, nextAdminId, nextContactId, nextClientId>>

\* POST /api/clients
CreateClient ==
    \E r \in Requests :
        /\ r.op = "createClient" /\ r.pc = "exec"
        /\ Leave(r)
        /\ clients' = clients \cup {r.arg}
        /\ sent' = Done(r.op, r.arg, Res(201, TRUE, Undefined, DataDoc(r.arg), NoToken),
                        Append(r.log, "write"))
        /\ UNCHANGED <<admins, contacts, now, nextAdminId, nextContactId, nextClientId>>

\* GET /api/clients (public)
ListClients ==
    /\ \E found \in SortByDateDesc(clients) :
           sent' = Done("listClients", NoArg,
                        Res(200, TRUE, Undefined, DataList(found), NoToken),
                        <<"read">>)
    /\ UNCHANGED <<admins, contacts, clients, now, nextAdminId, nextContactId,
                   nextClientId, inflight>>

\* ---------------------------------------------------------------- POST /api/admin/register
\* Admin.findOne({ username }) settles: 400 when it found an account, else
\* bcrypt.hash is started.
Register ==
    \E u \in Usernames : \E p \in Passwords :
        LET existingAdmin == FindOneAdmin(admins, u)
            tag == IF \E a \in admins : a.username = u THEN "present" ELSE "absent"
        IN
        IF existingAdmin # NullDoc
        THEN /\ sent' = Done("register", [username |-> u],
                             Res(400, FALSE, "Admin already exists", NoData, NoToken),
                             <<tag>>)
             /\ UNCHANGED <<admins, contacts, clients, now, nextAdminId,
                            nextContactId, nextClientId, inflight>>
        ELSE /\ InFlight({"register"}) < MaxRegistering
             /\ nextAdminId + Cardinality({r \in Requests : r.op = "register"
                                                          /\ r.pc = "hash"})
                    <= MaxAdmins
             /\ Enter(Flight("register", "hash", NullDoc,
                             [username |-> u, password |-> p], <<tag>>))
             /\ Quiet
             /\ UNCHANGED <<admins, contacts, clients, now, nextAdminId,
                            nextContactId, nextClientId>>

\* bcrypt.hash(password, 10) settles: new Admin({ username, password:
\* hashedPassword }), and admin.save() is started.
RegisterHash ==
    \E r \in Requests : \E salt \in Salts :
        /\ r.op = "register" /\ r.pc = "hash"
        /\ nextAdminId <= MaxAdmins
        /\ nextAdminId' = nextAdminId + 1
        /\ Move(r, [r EXCEPT !.pc = "save",
                             !.arg = [id |-> nextAdminId, username |-> r.arg.username,
                                      password |-> Hash(r.arg.password, salt)]])
        /\ Quiet
        /\ UNCHANGED <<admins, contacts, clients, now, nextContactId, nextClientId>>

\* admin.save() settles: the insert, or the error that the catch turns into a 500
RegisterSave ==
    \E r \in Requests :
        /\ r.op = "register" /\ r.pc = "save"
        /\ Leave(r)
        /\ IF AdminSaveOk(admins, r.arg)
           THEN /\ admins' = admins \cup {r.arg}
                /\ sent' = Done(r.op, [username |-> r.arg.username],
                                Res(201, TRUE, "Admin created successfully", NoData, NoToken),
                                Append(r.log, "inserted"))
           ELSE /\ admins' = admins
                /\ sent' = Done(r.op, [username |-> r.arg.username],
                                Res(500, FALSE, "Server error", NoData, NoToken),
                                Append(r.log, "rejected"))
        /\ UNCHANGED <<contacts, clients, now, nextAdminId, nextContactId, nextClientId>>

\* ---------------------------------------------------------------- POST /api/admin/login
\* Admin.findOne({ username }) settles: 401 when it found no account, else
\* bcrypt.compare is started on the document it returned.
Login ==
    \E u \in Usernames : \E p \in Passwords :
        LET admin == FindOneAdmin(admins, u)
            arg == [username |-> u, password |-> p]
            tag == IF \E a \in admins : a.username = u THEN "known" ELSE "unknown"
        IN
        IF admin = NullDoc
        THEN /\ sent' = Done("login", arg,
                             Res(401, FALSE, "Invalid credentials", NoData, NoToken),
                             <<tag>>)
             /\ UNCHANGED <<admins, contacts, clients, now, nextAdminId,
                            nextContactId, nextClientId, inflight>>
        ELSE /\ InFlight({"login"}) < MaxLoggingIn
             /\ Enter(Flight("login", "compare", admin, arg, <<tag>>))
             /\ Quiet
             /\ UNCHANGED <<admins, contacts, clients, now, nextAdminId,
                            nextContactId, nextClientId>>

\* bcrypt.compare(password, admin.password) settles: 401 on a mismatch, else
\* jwt.sign stamps the token with the clock of this moment.
LoginCompare ==
    \E r \in Requests :
        /\ r.op = "login" /\ r.pc = "compare"
        /\ Leave(r)
        /\ LET tag == IF r.admin.password = Hash(r.arg.password, r.admin.password.salt)
                      THEN "match" ELSE "mismatch"
           IN
           sent' =
             IF ~Compare(r.arg.password, r.admin.password)
             THEN Done("login", r.arg,
                       Res(401, FALSE, "Invalid credentials", NoData, NoToken),
                       Append(r.log, tag))
             ELSE Done("login", r.arg,
                       Res(200, TRUE, "Login successful", NoData, Sign(r.admin.id, now)),
                       Append(r.log, tag))
        /\ UNCHANGED <<admins, contacts, clients, now, nextAdminId, nextContactId,
                       nextClientId>>

\* ---------------------------------------------------------------- specifications
Next ==
    \/ Tick
    \/ TickWeek
    \/ Submit
    \/ Save
    \/ Notify
    \/ Respond
    \/ Auth
    \/ AuthFind
    \/ ListContacts
    \/ UpdateContact
    \/ DeleteContact
    \/ CreateClient
    \/ ListClients
    \/ Register
    \/ RegisterHash
    \/ RegisterSave
    \/ Login
    \/ LoginCompare

Spec == Init /\ [][Next]_vars

\* The routes that share a collection, each group on its own.  Requests of
\* the other groups change no variable these routes read.  Submissions read
\* the clock for the date of the inquiry; registration and login read it for
\* the expiry of the token, which is counted in seconds.
NextSubmit ==
    \/ Tick
    \/ Submit
    \/ Save
    \/ Notify
    \/ Respond

SpecSubmit == Init /\ [][NextSubmit]_vars

NextAdmin ==
    \/ TickWeek
    \/ Register
    \/ RegisterHash
    \/ RegisterSave
    \/ Login
    \/ LoginCompare

SpecAdmin == Init /\ [][NextAdmin]_vars

\* The admin-gated routes read the clock for the expiry of the token and for
\* the date of a new client.  They start where a registration and two complete
\* submissions, a millisecond apart, have left the store (a state Spec reaches).
SeedAdmin == [id |-> 1, username |-> "a", password |-> Hash("p", "s1")]

SeedBody ==
    [name |-> "x", email |-> "x", phone |-> Undefined, service |-> "seo",
     message |-> "x"]

InitGuard ==
    /\ admins = {SeedAdmin}
    /\ contacts = {NewContact(SeedBody, 1, 0), NewContact(SeedBody, 2, 1)}
    /\ clients = {}
    /\ now = 1
    /\ nextAdminId = 2
    /\ nextContactId = 3
    /\ nextClientId = 1
    /\ inflight = EmptyBag
    /\ sent = NoResponse

NextGuard ==
    \/ TickWeek
    \/ Auth
    \/ AuthFind
    \/ ListContacts
    \/ UpdateContact
    \/ DeleteContact
    \/ CreateClient
    \/ ListClients

SpecGuard == InitGuard /\ [][NextGuard]_vars

\* ---------------------------------------------------------------- properties
Has(log, e) == \E i \in DOMAIN log : log[i] = e

Unauthenticated == Res(401, FALSE, "Please authenticate", NoData, NoToken)

RefusalCauses == {"no_token", "malformed", "expired", "no_account"}

\* C1: a step changes contacts or clients only when it completes an admin-gated
\* request, and an admin-gated handler runs only for a request whose token
\* verified and whose admin id had an account when the guard looked it up; a
\* request the guard refuses leaves contacts and clients as they were.
C1_GuardedAccess ==
    [][ /\ (sent'.op = "auth" => contacts' = contacts /\ clients' = clients)
        /\ (contacts' # contacts \/ clients' # clients) => sent'.op \in GatedOps
        /\ sent'.op \in GatedOps =>
               /\ SubSeq(sent'.log, 1, 2) = <<"verified", "account">>
               /\ sent'.res.status # 401
        /\ \A r \in BagToSet(inflight') :
               r.op \in GatedOps => r.log = <<"verified", "account">>
      ]_vars

\* An admin-gated write has completed behind a guard that passed.
C1_Witness ==
    /\ sent.op = "updateContact"
    /\ sent.log = <<"verified", "account", "write">>
    /\ \E c \in contacts : c.id = sent.arg.id /\ c.status = sent.arg.status

\* C2: a gated request with no token, a malformed token, an expired token or a
\* verified token whose admin id has no account is answered by the guard, and in
\* all four cases with the same 401 { success: false, message: "Please authenticate" };
\* no such request reaches a handler.
C2_UniformRefusal ==
    /\ (\E c \in RefusalCauses : Has(sent.log, c)) =>
           (sent.op = "auth" /\ sent.res = Unauthenticated)
    /\ sent.op = "auth" => \E c \in RefusalCauses : Has(sent.log, c)
    /\ \A r \in Requests : \A c \in RefusalCauses : ~Has(r.log, c)

\* A verified token whose admin id has no account was refused.
C2_Witness ==
    /\ sent.log = <<"verified", "no_account">>
    /\ sent.res = Unauthenticated

\* C3: a submission with name, email and message present and not empty adds
\* exactly one inquiry, with status "new", and is answered 201; one that lacks
\* any of them is answered 400 and adds nothing.
C3_SubmissionOutcome ==
    [][ /\ (sent'.op = "contact" /\ Has(sent'.log, "incomplete")) =>
               (sent'.res.status = 400 /\ contacts' = contacts
                /\ ~Has(sent'.log, "persist"))
        /\ (sent'.op = "contact" /\ Has(sent'.log, "complete")) =>
               (sent'.res.status = 201
                /\ Cardinality({i \in DOMAIN sent'.log : sent'.log[i] = "persist"}) = 1)
        /\ \A r \in BagToSet(inflight') : Has(r.log, "persist") => Has(r.log, "complete")
        /\ contacts' # contacts =>
               \E d \in contacts' :
                   /\ \A c \in contacts : c.id # d.id
                   /\ contacts' = contacts \cup {d}
                   /\ d.status = "new"
                   /\ RequiredPresent(d)
                   /\ \E r \in BagToSet(inflight') :
                          r.arg = d /\ r \notin BagToSet(inflight)
      ]_vars

\* An incomplete submission was answered 400 while an earlier complete one is stored.
C3_Witness ==
    /\ sent.op = "contact"
    /\ sent.res.status = 400
    /\ \E c \in contacts : c.status = "new"

\* C4: once the inquiry is saved, the submission is answered 201 with success
\* true whether the mail was sent or failed, and neither the mail's outcome nor
\* the answer touches the stored inquiries.
C4_NotificationSwallowed ==
    [][ /\ (sent'.op = "contact" /\ Has(sent'.log, "persist")) =>
               /\ sent'.res =
                      Res(201, TRUE, "Thank you! We will contact you soon.", NoData, NoToken)
               /\ sent'.arg \in contacts'
               /\ contacts' = contacts
        /\ contacts' # contacts =>
               \E r \in BagToSet(inflight') :
                   /\ r.op = "contact" /\ r.log[Len(r.log)] = "persist"
                   /\ r \notin BagToSet(inflight)
      ]_vars

\* A submission whose mail failed was answered 201 and its inquiry is stored.
C4_Witness ==
    /\ sent.op = "contact"
    /\ Has(sent.log, "notify_fail")
    /\ sent.res.status = 201
    /\ sent.arg \in contacts

\* C5: a registration of a username (not empty) that already has an account is
\* answered 400 and leaves the accounts as they were; one of a username that has
\* none is answered 201 and adds exactly one account, of that username.
C5_RegisterTwice ==
    [][ (sent'.op = "register" /\ sent'.arg.username # "") =>
            LET u == sent'.arg.username
                had == \E a \in admins : a.username = u
            IN
            /\ Has(sent'.log, "present") =>
                   (sent'.res.status = 400 /\ admins' = admins)
            /\ (Has(sent'.log, "absent") /\ ~had) =>
                   /\ sent'.res.status = 201
                   /\ Cardinality(admins') = Cardinality(admins) + 1
                   /\ \E d \in admins' : d.username = u /\ admins' = admins \cup {d}
            /\ sent'.res.status = 201 => ~had
      ]_vars

\* The second registration of a stored username was answered 400.
C5_Witness ==
    /\ sent.op = "register"
    /\ sent.res.status = 400
    /\ Cardinality({a \in admins : a.username = sent.arg.username}) = 1

UniqueUsernames == \A a, b \in admins : a.username = b.username => a = b

\* C6: no two stored accounts have the same username, also when two
\* registrations of one username have both passed the existence check before
\* either inserts; a registration that is not answered 201 leaves the accounts
\* as they were.
C6_UniqueUsername ==
    [][ /\ UniqueUsernames'
        /\ (sent'.op = "register" /\ sent'.res.status # 201) => admins' = admins
      ]_vars

\* Of two registrations that both found the username free, the later insert was rejected.
C6_Witness ==
    /\ sent.op = "register"
    /\ sent.log = <<"absent", "rejected">>
    /\ \E a \in admins : a.username = sent.arg.username

\* C7: login is answered 200 with a token exactly when the username has an
\* account whose stored hash was made from the password; otherwise, unknown
\* username or wrong password alike, 401 "Invalid credentials"; the store is
\* unchanged.
C7_LoginOutcome ==
    [][ sent'.op = "login" =>
            LET ok == \E a \in admins :
                          /\ a.username = sent'.arg.username
                          /\ a.password = Hash(sent'.arg.password, a.password.salt)
            IN
            /\ ok <=> (sent'.res.status = 200 /\ sent'.res.token # NoToken)
            /\ ok => sent'.res.token.id \in {a.id : a \in admins}
            /\ ~ok => sent'.res =
                          Res(401, FALSE, "Invalid credentials", NoData, NoToken)
            /\ admins' = admins /\ contacts' = contacts /\ clients' = clients
      ]_vars

\* A login with a stored username and a wrong password was answered 401.
C7_Witness ==
    /\ sent.op = "login"
    /\ sent.log = <<"known", "mismatch">>
    /\ sent.res.status = 401

\* C8: the status of every stored inquiry is one of "new", "contacted", "completed".
C8_StatusEnumerated ==
    \A c \in contacts : c.status \in {"new", "contacted", "completed"}

\* C9: an authenticated delete is answered 200 with success true for every id,
\* stored or not; after it no inquiry has the id and the others are as they
\* were, so a delete of an id that is not stored changes nothing.
C9_DeleteIdempotent ==
    [][ sent'.op = "deleteContact" =>
            /\ sent'.res = Res(200, TRUE, "Contact deleted", NoData, NoToken)
            /\ \A c \in contacts' : c.id # sent'.arg.id
            /\ contacts' = {c \in contacts : c.id # sent'.arg.id}
            /\ (\A c \in contacts : c.id # sent'.arg.id) => contacts' = contacts
      ]_vars

\* A delete of an id that is no longer stored was answered 200; another inquiry remains.
C9_Witness ==
    /\ sent.op = "deleteContact"
    /\ Has(sent.log, "miss")
    /\ sent.res.status = 200
    /\ contacts # {}

\* C10: a submission is answered once, and never before its save has completed
\* and its mail has been sent or has failed: a complete submission goes
\* persist, notify, respond; an incomplete one is answered at once.
C10_SubmissionOrder ==
    /\ sent.op = "contact" =>
           /\ Has(sent.log, "incomplete") => Tail(sent.log) = <<"respond">>
           /\ Has(sent.log, "complete") =>
                  Tail(sent.log) \in {<<"persist", "notify_ok", "respond">>,
                                      <<"persist", "notify_fail", "respond">>}
    /\ \A r \in Requests :
           r.op = "contact" =>
               /\ ~Has(r.log, "respond")
               /\ Tail(r.log) \in {<<>>, <<"persist">>, <<"persist", "notify_ok">>,
                                   <<"persist", "notify_fail">>}
               /\ r.pc = "save" <=> Len(r.log) = 1
               /\ r.pc = "notify" <=> Len(r.log) = 2
               /\ r.pc = "respond" <=> Len(r.log) = 3

\* A complete submission was answered after its save and its mail.
C10_Witness ==
    /\ sent.op = "contact"
    /\ sent.log = <<"complete", "persist", "notify_ok", "respond">>
    /\ sent.res.status = 201

====
